---- MODULE Spec2Model ----
(***************************************************************************)
(* State-machine model of the rt-module request/response multiplexers:     *)
(*   - RTWebSocket (src/src/rtws.py), the duplex endpoint with a receiver   *)
(*     and a sender loop, checked under Spec;                               *)
(*   - RTConnection (src/src/rtc.py), the polled half-duplex endpoint,      *)
(*     checked under SpecRTC.                                               *)
(* Two endpoints, 1 and 2, sit on the two ends of one websocket.  Every     *)
(* action is one run of a coroutine between two suspension points of the    *)
(* single asyncio event loop of its endpoint.                               *)
(***************************************************************************)
EXTENDS Integers, Sequences, FiniteSets, TLC

\* ------------------------------------------------------------------ bounds
\* Number of request() calls made in one behaviour (both endpoints together).
MaxCalls == 2
\* Number of websocket connections established in one behaviour.
MaxConn == 2

\* Number of RTConnection.request() calls made in one behaviour.
RtcMaxCalls == 2
\* Number of sockets handed to RTConnection.communicate() in one behaviour.
RtcMaxConn == 2

\* The two endpoints.
Endpoints == {1, 2}
Peer(e) == 3 - e

VARIABLES
  \* ---- RTWebSocket (duplex endpoint), one entry per endpoint
  ws,                        \* self.ws: 0 is None, else the connection number
  closed,                    \* self.ws.closed (the two ends of a socket close together)
  wire,                      \* frames written by the peer, not yet received
  queues,                    \* self.queues: NoQueues is None
  started,                   \* self.started (asyncio.Event)
  receiver_task,             \* state of self.receiver_task
  sender_task,               \* state of self.sender_task
  communicating,             \* communicate() is suspended in asyncio.wait
  successfully_disconnected, \* self._successfully_disconnected
  processing,                \* the running _process_request tasks (their requests)
  \* ---- RTWebSocket, global
  calls,                     \* the request() calls made so far
  dataEvents,                \* the DataEvent objects created so far
  connCount,                 \* connections established so far
  puts,                      \* history: packets put on a send queue, per endpoint
  sent                       \* history: packets written to a socket, per endpoint

VARIABLES
  \* ---- RTConnection (polled endpoint), one entry per endpoint
  rtc_queues,                \* self.queues: session -> TimedDataEvent (its index)
  rtc_ready,                 \* self.ready (asyncio.Event); connected is ready.is_set()
  rtc_pc,                    \* where communicate() is: idle, send, recv, ended
  rtc_wire,                  \* frames written by the peer, not yet received
  rtc_tasks,                 \* the running _wrap_error_handling tasks (their requests)
  rtc_last_exception,        \* self.last_exception
  \* ---- RTConnection, global
  rtc_closed,                \* the socket is closed
  rtc_events,                \* the TimedDataEvent objects created so far
  rtc_calls,                 \* the request() calls made so far
  rtc_connCount              \* sockets handed to communicate() so far

VARIABLES
  \* ---- RTWebSocket.start() called on endpoint 1
  start_pc,                  \* where start() is: idle, connect, communicate, sleep, returned
  start_reconnect,           \* the argument reconnect
  start_okstatus,            \* the argument okstatus
  has_close_code,            \* hasattr(self.ws, "close_code")
  close_code                 \* self.ws.close_code: 0 is None (the socket is open)

VARIABLES
  \* ---- RTConnection: session tokens and the routing of a received frame
  nonce_name,                \* self.name of each endpoint, as a string of characters
  nonce_session,             \* the token of the frame in flight, and who minted it
  nonce_routed               \* who received the frame, and the method it was given to

nonceVars == <<nonce_name, nonce_session, nonce_routed>>

startVars == <<start_pc, start_reconnect, start_okstatus, has_close_code, close_code>>

rtcVars == <<rtc_queues, rtc_ready, rtc_pc, rtc_wire, rtc_tasks,
             rtc_last_exception, rtc_closed, rtc_events, rtc_calls,
             rtc_connCount>>

wsVars == <<ws, closed, wire, queues, started, receiver_task, sender_task,
            communicating, successfully_disconnected,
            processing, calls, dataEvents, connCount, puts, sent>>

vars == <<wsVars, rtcVars, startVars, nonceVars>>

\* What the duplex endpoints leave alone, and what the polled endpoints do.
nonWsVars == <<rtcVars, startVars, nonceVars>>
nonRtcVars == <<wsVars, startVars, nonceVars>>

\* ------------------------------------------------------------------ values
NoData == [val |-> 0, exc |-> ""]
NoSession == [name |-> 0, nonce |-> 0]
\* Python's None where a Packet is expected (DataEvent.data, clean()'s sentinel).
None == [type |-> "None", status |-> "", data |-> NoData,
         session |-> NoSession, event |-> ""]
\* Python's None where Queues is expected.
NoQueues == [sending |-> <<>>, waiting |-> <<>>, conn |-> 0]

\* class Queues: sending is a FIFO, waiting maps Session -> DataEvent (its index
\* in dataEvents); conn records the connection the object was created for.
Queues(c) == [sending |-> <<>>, waiting |-> <<>>, conn |-> c]

\* class Packet
Packet(status, type, data, session, event) ==
  [type |-> type, status |-> status, data |-> data,
   session |-> session, event |-> event]

\* The handler registry self.events of both endpoints, and what a caller may ask.
events == {"succ", "boom"}
\* The (event, argument) pairs a caller passes to request(): a handler that
\* returns, with two payloads, a handler that raises, an event nobody registered.
Requests == {<<"succ", 1>>, <<"succ", 2>>, <<"boom", 1>>, <<"missing", 1>>}

\* ------------------------------------------------- RTWebSocket: pure helpers
\* self.name of endpoint e.
name(e) == e

\* make_session: f"RTWS.{self.name}[{time()},{token_hex(8)}]".  The clock and the
\* random hex are modelled by a number n never used before.
make_session(e, n) == [name |-> name(e), nonce |-> n]

\* _make_response: session and event are copied from the request.
make_response(request, data, status) ==
  Packet(status, "response", data, request.session, request.event)

\* What the registered handlers do: "succ" returns its argument plus one,
\* "boom" raises.
HandlerRaises(event) == event = "boom"
HandlerValue(event, x) == x + 1

\* format_exc() of the exception caught in _process_request.
format_exc(excName) == [val |-> 0, exc |-> excName]

\* Mutant of process_request_response: the exception of the handler is not
\* turned into an Error response, the traceback is sent as an Ok result.
process_request_error_as_ok(request) ==
  IF request.event \notin events
    THEN make_response(request, format_exc("AssertionError"), "Error")
  ELSE IF HandlerRaises(request.event)
    THEN make_response(request, format_exc("HandlerError"), "Ok")
  ELSE make_response(request,
         [val |-> HandlerValue(request.event, request.data.val), exc |-> ""], "Ok")

\* Mutant of process_request_response: the response carries the request's
\* payload instead of the handler's return value.
process_request_echo(request) ==
  IF request.event \notin events
    THEN make_response(request, format_exc("AssertionError"), "Error")
  ELSE IF HandlerRaises(request.event)
    THEN make_response(request, format_exc("HandlerError"), "Error")
  ELSE make_response(request, request.data, "Ok")

\* The try/except of _process_request: the response packet it builds.
process_request_response(request) ==
  IF request.event \notin events
    THEN make_response(request, format_exc("AssertionError"), "Error")
  ELSE IF HandlerRaises(request.event)
    THEN make_response(request, format_exc("HandlerError"), "Error")
  ELSE make_response(request,
         [val |-> HandlerValue(request.event, request.data.val), exc |-> ""], "Ok")

\* dict helpers for Queues.waiting (a function from Session to DataEvent index).
DictSet(d, k, v) == [x \in (DOMAIN d) \cup {k} |-> IF x = k THEN v ELSE d[x]]

\* DataEvent(): data is None (the class attribute), the event is not set.
NewDataEvent == [isSet |-> FALSE, data |-> None]

\* DataEvent.set(data): store the data, then set the event.
DataEvent_set(evs, i, data) == [evs EXCEPT ![i].data = data, ![i].isSet = TRUE]

\* The loop of clean(): value.set(None) for every value of the waiting dict.
RECURSIVE SetAll(_, _, _)
SetAll(evs, ids, data) ==
  IF ids = {} THEN evs
  ELSE LET i == CHOOSE x \in ids : TRUE
       IN SetAll(DataEvent_set(evs, i, data), ids \ {i}, data)

Range(f) == {f[x] : x \in DOMAIN f}

\* Mutant of clean_dataEvents: the waiting DataEvents are dropped without being set.
clean_without_set(q, evs) == evs

\* clean(): "if self.queues and self.queues.waiting": a Queues object is always
\* truthy, the dict is truthy when not empty.
CleanApplies(q) == q # NoQueues /\ DOMAIN q.waiting # {}
clean_dataEvents(q, evs) == IF CleanApplies(q) THEN SetAll(evs, Range(q.waiting), None) ELSE evs
clean_queues(q) == IF CleanApplies(q) THEN NoQueues ELSE q

\* is_connected(): not self.ws.closed
is_connected(e) == ~closed

\* asyncio.Queue.put on an unbounded queue appends without suspending.
put(q, packet) == [q EXCEPT !.sending = Append(@, packet)]


\* ------------------------------------------------------ RTWebSocket: actions
\* communicate() up to its await of asyncio.wait, as it changes self.queues and
\* the DataEvents: clean(), then a new Queues for the socket.
communicate_dataEvents(q, evs) == clean_dataEvents(q, evs)

\* A websocket is established between the two endpoints and each runs
\* communicate() on its end (start() after connect() returned on one side, the
\* server's connection handler on the other): self.ws is the new socket, clean(),
\* new Queues, started set, both loops created.  Both endpoints have left the
\* communicate() of the previous socket.
communicate ==
  /\ connCount < MaxConn
  /\ \A e \in Endpoints : ~communicating[e]
  /\ connCount' = connCount + 1
  /\ ws' = [e \in Endpoints |-> connCount + 1]
  /\ closed' = FALSE
  /\ wire' = [e \in Endpoints |-> <<>>]
  /\ dataEvents' = communicate_dataEvents(queues[2], communicate_dataEvents(queues[1], dataEvents))
  /\ queues' = [e \in Endpoints |-> Queues(connCount + 1)]
  /\ started' = [e \in Endpoints |-> TRUE]
  /\ receiver_task' = [e \in Endpoints |-> "running"]
  /\ sender_task' = [e \in Endpoints |-> "running"]
  /\ communicating' = [e \in Endpoints |-> TRUE]
  /\ UNCHANGED <<successfully_disconnected, processing, calls, puts, sent>>

\* The rest of communicate().  A loop ends when it finds the socket closed: its
\* "while self.is_connected()" is false (no exception) or ws.recv() / ws.send()
\* raises ConnectionClosed (exception).  asyncio.wait returns, the exception of
\* the finished loop is recorded, the other loop is cancelled, clean(),
\* started.clear().
communicate_teardown(e, exception) ==
  /\ communicating[e]
  /\ ~is_connected(e)
  /\ successfully_disconnected' =
       [successfully_disconnected EXCEPT ![e] = IF exception THEN "Exception" ELSE @]
  /\ receiver_task' = [receiver_task EXCEPT ![e] = "finished"]
  /\ sender_task' = [sender_task EXCEPT ![e] = "finished"]
  /\ dataEvents' = clean_dataEvents(queues[e], dataEvents)
  /\ queues' = [queues EXCEPT ![e] = clean_queues(@)]
  /\ started' = [started EXCEPT ![e] = FALSE]
  /\ communicating' = [communicating EXCEPT ![e] = FALSE]
  /\ UNCHANGED <<ws, closed, wire, processing, calls, connCount, puts, sent>>

\* Mutant of receiver_set: the response is set on some waiting DataEvent without
\* looking at its session.
receiver_set_any_waiter(q, evs, data) ==
  IF DOMAIN q.waiting # {}
    THEN DataEvent_set(evs, q.waiting[CHOOSE k \in DOMAIN q.waiting :
                                       \A j \in DOMAIN q.waiting : k.nonce <= j.nonce], data)
    ELSE evs

\* The DataEvents after the receiver got the response `data`:
\* "if data['session'] in self.queues.waiting: ....set(data)".
receiver_set(q, evs, data) ==
  IF data.session \in DOMAIN q.waiting
    THEN DataEvent_set(evs, q.waiting[data.session], data)
    ELSE evs

\* One turn of _receiver_handler's loop on a received frame: a request becomes
\* a _process_request task, a response is set on its DataEvent.
receiver_handler(e) ==
  /\ receiver_task[e] = "running"
  /\ is_connected(e)
  /\ wire[e] # <<>>
  /\ LET data == Head(wire[e]) IN
       /\ wire' = [wire EXCEPT ![e] = Tail(@)]
       /\ IF data.type = "request"
            THEN /\ processing' = [processing EXCEPT ![e] =
                                     @ \cup {[request |-> data, conn |-> ws[e]]}]
                 /\ UNCHANGED dataEvents
            ELSE /\ dataEvents' = receiver_set(queues[e], dataEvents, data)
                 /\ UNCHANGED processing
  /\ UNCHANGED <<ws, closed, queues, started, receiver_task, sender_task,
                 communicating, successfully_disconnected, calls, connCount,
                 puts, sent>>

\* Mutant of get_nowait: the newest packet is taken.
get_nowait_newest(sending) == sending[Len(sending)]

\* The packet the sender takes from the queue: get_nowait() takes the oldest.
get_nowait(sending) == Head(sending)
\* The queue after get_nowait().
after_get(sending) == Tail(sending)

\* One turn of _sender_handler's loop with a packet in the queue: take it and
\* write it to the socket.  (With an empty queue the turn only sleeps.)
sender_handler(e) ==
  /\ sender_task[e] = "running"
  /\ is_connected(e)
  /\ queues[e].sending # <<>>
  /\ LET data == get_nowait(queues[e].sending) IN
       /\ queues' = [queues EXCEPT ![e].sending = after_get(@)]
       /\ wire' = [wire EXCEPT ![Peer(e)] = Append(@, data)]
       /\ sent' = [sent EXCEPT ![e] = Append(@, [conn |-> ws[e], packet |-> data])]
  /\ UNCHANGED <<ws, closed, started, receiver_task, sender_task, communicating,
                 successfully_disconnected, processing, calls, dataEvents,
                 connCount, puts>>

\* A _process_request task runs to its end: the handler returns or raises, the
\* response is built and put on self.queues.sending (the queues of the moment
\* the task ends).  With self.queues None the put raises AttributeError and the
\* task ends without a response.
process_request(e, task) ==
  /\ task \in processing[e]
  /\ processing' = [processing EXCEPT ![e] = @ \ {task}]
  /\ IF queues[e] = NoQueues
       THEN UNCHANGED <<queues, puts>>
       ELSE LET data == process_request_response(task.request) IN
            /\ queues' = [queues EXCEPT ![e] = put(@, data)]
            /\ puts' = [puts EXCEPT ![e] =
                          Append(@, [conn |-> queues[e].conn, packet |-> data])]
  /\ UNCHANGED <<ws, closed, wire, started, receiver_task, sender_task,
                 communicating, successfully_disconnected, calls, dataEvents,
                 connCount, sent>>

\* request() up to its await of wait_for: the packet is put on the send queue
\* and the DataEvent is stored under the packet's session, with no suspension
\* in between.  With self.queues None the first line raises AttributeError.
\* Mutant of request_arm: the DataEvent is not stored in the waiting dict.
request_arm_forgotten(q, session, i) == q

request_arm(q, session, i) == [q EXCEPT !.waiting = DictSet(@, session, i)]

request(e, event, x) ==
  /\ Len(calls) < MaxCalls
  /\ IF queues[e] = NoQueues
       THEN /\ calls' = Append(calls,
                 [owner |-> e, event |-> event, arg |-> x, session |-> NoSession,
                  waiter |-> 0, state |-> "raised", error |-> "AttributeError",
                  got |-> None])
            /\ UNCHANGED <<queues, dataEvents, puts>>
       ELSE LET session == make_session(e, Len(calls) + 1)
                data == Packet("Ok", "request", [val |-> x, exc |-> ""], session, event)
                i == Len(dataEvents) + 1
            IN /\ queues' = [queues EXCEPT ![e] = request_arm(put(@, data), session, i)]
               /\ dataEvents' = Append(dataEvents, NewDataEvent)
               /\ puts' = [puts EXCEPT ![e] =
                             Append(@, [conn |-> queues[e].conn, packet |-> data])]
               /\ calls' = Append(calls,
                    [owner |-> e, event |-> event, arg |-> x, session |-> session,
                     waiter |-> i, state |-> "waiting", error |-> "", got |-> None])
  /\ UNCHANGED <<ws, closed, wire, started, receiver_task, sender_task,
                 communicating, successfully_disconnected, processing,
                 connCount, sent>>

\* wait_for's timeout fires before the DataEvent was set: RequestError Timeout.
request_timeout(c) ==
  /\ c \in DOMAIN calls
  /\ calls[c].state = "waiting"
  /\ ~dataEvents[calls[c].waiter].isSet
  /\ calls' = [calls EXCEPT ![c].state = "raised", ![c].error = "Timeout"]
  /\ UNCHANGED <<ws, closed, wire, queues, started, receiver_task, sender_task,
                 communicating, successfully_disconnected, processing,
                 dataEvents, connCount, puts, sent>>

\* Mutant of request_result: a call woken by the drain (data None) does not
\* raise and stays where it is.
request_result_none_ignored(call, data) ==
  IF data = None
    THEN call
  ELSE IF data.status = "Error"
    THEN [call EXCEPT !.state = "raised", !.error = "Error", !.got = data]
  ELSE [call EXCEPT !.state = "returned", !.got = data]

\* The outcome of request() once DataEvent.wait() returned `data`.
request_result(call, data) ==
  IF data = None
    THEN [call EXCEPT !.state = "raised", !.error = "Disconnected"]
  ELSE IF data.status = "Error"
    THEN [call EXCEPT !.state = "raised", !.error = "Error", !.got = data]
  ELSE [call EXCEPT !.state = "returned", !.got = data]

\* The DataEvent was set: DataEvent.wait() resumes and returns self.data as it
\* is now, and request() returns or raises.
request_wake(c) ==
  /\ c \in DOMAIN calls
  /\ calls[c].state = "waiting"
  /\ dataEvents[calls[c].waiter].isSet
  /\ calls' = [calls EXCEPT ![c] = request_result(@, dataEvents[calls[c].waiter].data)]
  /\ UNCHANGED <<ws, closed, wire, queues, started, receiver_task, sender_task,
                 communicating, successfully_disconnected, processing,
                 dataEvents, connCount, puts, sent>>

\* close(): ws.close() closes the socket, then clean().
close(e) ==
  /\ ws[e] # 0
  /\ is_connected(e)
  /\ closed' = TRUE
  /\ dataEvents' = clean_dataEvents(queues[e], dataEvents)
  /\ queues' = [queues EXCEPT ![e] = clean_queues(@)]
  /\ UNCHANGED <<ws, wire, started, receiver_task, sender_task, communicating,
                 successfully_disconnected, processing, calls, connCount,
                 puts, sent>>

\* The transport: the network fails and the socket goes to the closed state.
connection_lost ==
  /\ ws[1] # 0
  /\ ~closed
  /\ closed' = TRUE
  /\ UNCHANGED <<ws, wire, queues, started, receiver_task, sender_task,
                 communicating, successfully_disconnected, processing, calls,
                 dataEvents, connCount, puts, sent>>

\* ------------------------------------------------------------ specification
\* RTWebSocket.__init__ on both endpoints, no socket yet.
InitWS ==
  /\ ws = [e \in Endpoints |-> 0]
  /\ closed = TRUE
  /\ wire = [e \in Endpoints |-> <<>>]
  /\ queues = [e \in Endpoints |-> NoQueues]
  /\ started = [e \in Endpoints |-> FALSE]
  /\ receiver_task = [e \in Endpoints |-> "none"]
  /\ sender_task = [e \in Endpoints |-> "none"]
  /\ communicating = [e \in Endpoints |-> FALSE]
  /\ successfully_disconnected = [e \in Endpoints |-> "None"]
  /\ processing = [e \in Endpoints |-> {}]
  /\ calls = <<>>
  /\ dataEvents = <<>>
  /\ connCount = 0
  /\ puts = [e \in Endpoints |-> <<>>]
  /\ sent = [e \in Endpoints |-> <<>>]

\* ------------------------------------------------------ RTWebSocket.start()
\* The okstatus arguments tried: the default (1000,) and a wider one.
OkStatuses == {{1000}, {1000, 1001}}
\* The codes close() may be called with.
CloseCodes == {1000, 1001}

\* start(url, reconnect=..., okstatus=...) is called on endpoint 1 and reaches
\* "self.ws = await self.connect(...)".
start(reconnect, okstatus) ==
  /\ start_pc = "idle"
  /\ start_pc' = "connect"
  /\ start_reconnect' = reconnect
  /\ start_okstatus' = okstatus
  /\ UNCHANGED <<has_close_code, close_code, wsVars>>

\* The end of one turn of start's loop: "if reconnect: sleep(3) else: break".
start_retry(reconnect) == IF reconnect THEN "sleep" ELSE "returned"

\* The if after "await self.communicate()": break when the socket has a
\* close_code in okstatus and self._successfully_disconnected is None.
start_disconnected_successfully(hasattr, code, okstatus, sd) ==
  hasattr /\ code \in okstatus /\ sd = "None"

\* connect() raises OSError: logged, then the end of the turn.
start_connect_OSError ==
  /\ start_pc = "connect"
  /\ start_pc' = start_retry(start_reconnect)
  /\ UNCHANGED <<start_reconnect, start_okstatus, has_close_code, close_code, wsVars>>

\* connect() returns a socket and start enters communicate() on it (the else
\* branch), while the peer runs communicate() on its end.
start_connect ==
  /\ start_pc = "connect"
  /\ communicate
  /\ start_pc' = "communicate"
  /\ close_code' = 0
  /\ has_close_code' \in BOOLEAN
  /\ UNCHANGED <<start_reconnect, start_okstatus>>

\* communicate() of endpoint 1 returns and start decides: break, or the end of
\* the turn.
start_communicate_returns(exception) ==
  /\ start_pc = "communicate"
  /\ communicate_teardown(1, exception)
  /\ start_pc' =
       IF start_disconnected_successfully(has_close_code, close_code, start_okstatus,
                                          successfully_disconnected'[1])
         THEN "returned"
         ELSE start_retry(start_reconnect)
  /\ UNCHANGED <<start_reconnect, start_okstatus, has_close_code, close_code>>

\* asyncio.sleep(3) ends and the loop dials again.
start_sleep ==
  /\ start_pc = "sleep"
  /\ start_pc' = "connect"
  /\ UNCHANGED <<start_reconnect, start_okstatus, has_close_code, close_code, wsVars>>

\* The socket is closed by close(code) on either endpoint: close_code is code.
start_close(e, code) ==
  /\ close(e)
  /\ close_code' = code
  /\ UNCHANGED <<start_pc, start_reconnect, start_okstatus, has_close_code>>

\* The network fails: close_code is 1006.
start_connection_lost ==
  /\ connection_lost
  /\ close_code' = 1006
  /\ UNCHANGED <<start_pc, start_reconnect, start_okstatus, has_close_code>>

\* communicate() of the peer (endpoint 2) returns.
start_peer_teardown(exception) ==
  /\ communicate_teardown(2, exception)
  /\ UNCHANGED startVars

\* start() has not been called.
InitStart ==
  /\ start_pc = "idle"
  /\ start_reconnect = TRUE
  /\ start_okstatus = {1000}
  /\ has_close_code = TRUE
  /\ close_code = 0

\* ----------------------------------------------- RTConnection: pure helpers
\* RTConnection.name of endpoint e, as a string of characters.
rtc_name(e) == IF e = 1 THEN <<"a">> ELSE <<"b">>

\* Mutant of first: both endpoints are started with first=True.
first_on_both(e) == TRUE

\* communicate(ws, first): endpoint 1 is started with first=True.
first(e) == e = 1

\* f"Time:{time()},Nonce:{token_hex(nonce_length)}" of the n-th token minted.
TimeNonce == <<"t1", "t2", "t3", "t4", "t5", "t6">>

\* create_session_nonce: f"Name:{name},Time:{time()},Nonce:{token_hex(5)}",
\* character by character up to the first comma of the format.
create_session_nonce(nm, n) == <<"N", "a", "m", "e", ":">> \o nm \o <<",", TimeNonce[n]>>

\* str.find(ch): the 0-based index of the first ch, -1 when there is none.
str_find(str, ch) ==
  IF \E i \in DOMAIN str : str[i] = ch
    THEN (CHOOSE i \in DOMAIN str : str[i] = ch /\ \A j \in 1..(i - 1) : str[j] # ch) - 1
    ELSE 0 - 1

\* Python's str[a:b] for a >= 0; a negative b counts from the end.
str_slice(str, a, b) == SubSeq(str, a + 1, IF b < 0 THEN Len(str) + b ELSE b)

\* detect_nonce_name: nonce[5:nonce.find(",")]
detect_nonce_name(nonce) == str_slice(nonce, 5, str_find(nonce, ","))

\* response(status, data, message, **kwargs): the Data dict.  A key that is not
\* given (event_name of a response) is the empty string.
response(status, data, message, event_name, session) ==
  [status |-> status, data |-> data, message |-> message,
   event_name |-> event_name, session |-> session]

\* The literal frame "Nothing", and Python's None where a Data dict is expected.
Nothing == response("Nothing", NoData, <<>>, "", <<>>)
RtcNone == response("None", NoData, <<>>, "", <<>>)

\* TimedDataEvent(subject=(kind, packet)): created_at is time(), no "sent"
\* attribute yet, not set, data None.
TimedDataEvent(kind, packet, now) ==
  [subject |-> [kind |-> kind, packet |-> packet], created_at |-> now,
   sent |-> FALSE, isSet |-> FALSE, data |-> RtcNone]

DictDel(d, k) == [x \in (DOMAIN d) \ {k} |-> d[x]]

\* Mutant of get_queue: the entry with the largest created_at.
get_queue_newest(q, evs) ==
  IF DOMAIN q = {} THEN 0
  ELSE q[CHOOSE k \in DOMAIN q :
           \A j \in DOMAIN q : evs[q[k]].created_at >= evs[q[j]].created_at]

\* A lookup that would skip the entries already sent: the oldest unsent entry.
get_queue_unsent(q, evs) ==
  LET unsent == {k \in DOMAIN q : ~evs[q[k]].sent} IN
  IF unsent = {} THEN 0
  ELSE q[CHOOSE k \in unsent :
           \A j \in unsent : evs[q[k]].created_at <= evs[q[j]].created_at]

\* get_queue: the entry with the smallest created_at (0 is None).
get_queue(q, evs) ==
  IF DOMAIN q = {} THEN 0
  ELSE q[CHOOSE k \in DOMAIN q :
           \A j \in DOMAIN q : evs[q[k]].created_at <= evs[q[j]].created_at]

\* The finally of communicate: every entry is set with the Disconnected error.
rtc_drain(q, evs) ==
  SetAll(evs, Range(q), response("Error", NoData, <<"Disconnected">>, "", <<>>))

\* The send turn of communicate's loop: the frame that is written, the events
\* after "queue.sent = True", the queues after the del of a response entry.
send_frame(evs, queue) ==
  IF queue # 0 /\ ~evs[queue].sent THEN evs[queue].subject.packet ELSE Nothing
send_events(evs, queue) ==
  IF queue # 0 /\ ~evs[queue].sent THEN [evs EXCEPT ![queue].sent = TRUE] ELSE evs
send_queues(q, evs, queue) ==
  IF queue # 0 /\ evs[queue].subject.kind = "response"
    THEN DictDel(q, evs[queue].subject.packet.session)
    ELSE q

\* RTConnection.response(session, data, status, message): a response entry
\* (rtc_response_event, the next event created) is stored under the session of
\* the request.
rtc_response(q, evs, session) == DictSet(q, session, Len(evs) + 1)
rtc_response_event(session, data, status, message, now) ==
  TimedDataEvent("response", response(status, data, message, "", session), now)

\* _wrap_error_handling: the response of a handler task.
wrap_error_handling(task, now) ==
  IF HandlerRaises(task.event_name)
    THEN rtc_response_event(task.session, NoData, "Error", <<"HandlerError: ", task.event_name>>, now)
    ELSE rtc_response_event(task.session,
           [val |-> HandlerValue(task.event_name, task.data.val), exc |-> ""],
           "Ok", <<"Tired">>, now)

\* ------------------------------------------------------ RTConnection: actions
\* A socket is established and both endpoints call communicate(ws, first) on
\* it, up to the loop.  An endpoint whose ready event is set closes the socket
\* and returns; otherwise self.queues = {}, ready.set(), and the loop starts
\* with a send turn (first) or a receive turn.
rtc_communicate ==
  /\ rtc_connCount < RtcMaxConn
  /\ \A e \in Endpoints : rtc_pc[e] \in {"idle", "ended"}
  /\ rtc_connCount' = rtc_connCount + 1
  /\ rtc_wire' = [e \in Endpoints |-> <<>>]
  /\ rtc_closed' = \E e \in Endpoints : rtc_ready[e]
  /\ rtc_queues' = [e \in Endpoints |-> IF rtc_ready[e] THEN rtc_queues[e] ELSE <<>>]
  /\ rtc_pc' = [e \in Endpoints |->
                  IF rtc_ready[e] THEN rtc_pc[e]
                  ELSE IF first(e) THEN "send" ELSE "recv"]
  /\ rtc_ready' = [e \in Endpoints |-> TRUE]
  /\ UNCHANGED <<rtc_tasks, rtc_last_exception, rtc_events, rtc_calls>>

\* The except and finally of communicate after exception exc: any exception but
\* ConnectionClosed closes the socket; last_exception is recorded; every entry
\* of self.queues is set with Disconnected; communicate returns.
rtc_communicate_except(e, exc, evs) ==
  /\ rtc_last_exception' = [rtc_last_exception EXCEPT ![e] = exc]
  /\ rtc_closed' = (rtc_closed \/ exc # "ConnectionClosed")
  /\ rtc_events' = rtc_drain(rtc_queues[e], evs)
  /\ rtc_pc' = [rtc_pc EXCEPT ![e] = "ended"]

\* The send turn of the loop ("if first:"): the oldest entry is written if it
\* was not sent before, else "Nothing"; a response entry is deleted.
rtc_send(e) ==
  /\ rtc_pc[e] = "send"
  /\ IF rtc_closed
       THEN \* ws.send raises ConnectionClosed, after "queue.sent = True"
            /\ rtc_communicate_except(e, "ConnectionClosed",
                 send_events(rtc_events, get_queue(rtc_queues[e], rtc_events)))
            /\ UNCHANGED <<rtc_queues, rtc_wire>>
       ELSE LET queue == get_queue(rtc_queues[e], rtc_events) IN
            /\ rtc_wire' = [rtc_wire EXCEPT ![Peer(e)] = Append(@, send_frame(rtc_events, queue))]
            /\ rtc_events' = send_events(rtc_events, queue)
            /\ rtc_queues' = [rtc_queues EXCEPT ![e] = send_queues(@, rtc_events, queue)]
            /\ rtc_pc' = [rtc_pc EXCEPT ![e] = "recv"]
            /\ UNCHANGED <<rtc_last_exception, rtc_closed>>
  /\ UNCHANGED <<rtc_ready, rtc_tasks, rtc_calls, rtc_connCount>>

\* on_response: self.queues[data["session"]].set(data); KeyError when the
\* session is not a key.
on_response_raises(q, data) == data.session \notin DOMAIN q
on_response(q, evs, data) == DataEvent_set(evs, q[data.session], data)

\* The receive turn of the loop: ws.recv(), then on_response for a frame whose
\* session carries the own name, on_request for any other frame.
rtc_recv(e) ==
  /\ rtc_pc[e] = "recv"
  /\ rtc_closed \/ rtc_wire[e] # <<>>
  /\ IF rtc_closed
       THEN \* ws.recv raises ConnectionClosed
            /\ rtc_communicate_except(e, "ConnectionClosed", rtc_events)
            /\ UNCHANGED <<rtc_queues, rtc_wire, rtc_tasks>>
       ELSE LET data == Head(rtc_wire[e]) IN
            /\ rtc_wire' = [rtc_wire EXCEPT ![e] = Tail(@)]
            /\ IF data = Nothing
                 THEN /\ rtc_pc' = [rtc_pc EXCEPT ![e] = "send"]
                      /\ UNCHANGED <<rtc_queues, rtc_events, rtc_tasks,
                                     rtc_last_exception, rtc_closed>>
               ELSE IF detect_nonce_name(data.session) = rtc_name(e)
                 THEN IF on_response_raises(rtc_queues[e], data)
                        THEN /\ rtc_communicate_except(e, "KeyError", rtc_events)
                             /\ UNCHANGED <<rtc_queues, rtc_tasks>>
                        ELSE /\ rtc_events' = on_response(rtc_queues[e], rtc_events, data)
                             /\ rtc_pc' = [rtc_pc EXCEPT ![e] = "send"]
                             /\ UNCHANGED <<rtc_queues, rtc_tasks,
                                            rtc_last_exception, rtc_closed>>
               ELSE \* on_request
                    IF data.event_name \in events
                      THEN /\ rtc_tasks' = [rtc_tasks EXCEPT ![e] = @ \cup {data}]
                           /\ rtc_pc' = [rtc_pc EXCEPT ![e] = "send"]
                           /\ UNCHANGED <<rtc_queues, rtc_events,
                                          rtc_last_exception, rtc_closed>>
                      ELSE /\ rtc_queues' = [rtc_queues EXCEPT ![e] =
                                rtc_response(@, rtc_events, data.session)]
                           /\ rtc_events' = Append(rtc_events,
                                rtc_response_event(data.session, NoData, "Error",
                                   <<"EventNotFound: ", data.event_name>>, Len(rtc_events) + 1))
                           /\ rtc_pc' = [rtc_pc EXCEPT ![e] = "send"]
                           /\ UNCHANGED <<rtc_tasks, rtc_last_exception, rtc_closed>>
  /\ UNCHANGED <<rtc_ready, rtc_calls, rtc_connCount>>

\* A handler task (_wrap_error_handling) runs to its end: the handler's value,
\* or its exception, is stored as a response entry.
rtc_wrap_error_handling(e, task) ==
  /\ task \in rtc_tasks[e]
  /\ rtc_tasks' = [rtc_tasks EXCEPT ![e] = @ \ {task}]
  /\ rtc_queues' = [rtc_queues EXCEPT ![e] = rtc_response(@, rtc_events, task.session)]
  /\ rtc_events' = Append(rtc_events, wrap_error_handling(task, Len(rtc_events) + 1))
  /\ UNCHANGED <<rtc_ready, rtc_pc, rtc_wire, rtc_last_exception, rtc_closed,
                 rtc_calls, rtc_connCount>>

\* RTConnection.request up to its await of wait_for: the request entry is
\* stored under a new session.
rtc_request(e, event_name, x) ==
  /\ Len(rtc_calls) < RtcMaxCalls
  /\ LET session == create_session_nonce(rtc_name(e), Len(rtc_calls) + 1)
         i == Len(rtc_events) + 1
     IN /\ rtc_queues' = [rtc_queues EXCEPT ![e] = DictSet(@, session, i)]
        /\ rtc_events' = Append(rtc_events,
             TimedDataEvent("request",
               response("Ok", [val |-> x, exc |-> ""], <<"Fight">>, event_name, session), i))
        /\ rtc_calls' = Append(rtc_calls,
             [owner |-> e, event_name |-> event_name, arg |-> x, session |-> session,
              waiter |-> i, state |-> "waiting", got |-> RtcNone])
  /\ UNCHANGED <<rtc_ready, rtc_pc, rtc_wire, rtc_tasks, rtc_last_exception,
                 rtc_closed, rtc_connCount>>

\* The rest of RTConnection.request for the Data it got: the session is deleted
\* from self.queues if it is there, then the call raises or returns.
rtc_request_end(call, data) ==
  [call EXCEPT !.state = IF data.status = "Error" THEN "raised" ELSE "returned",
               !.got = data]
rtc_request_del(q, session) == IF session \in DOMAIN q THEN DictDel(q, session) ELSE q

\* wait_for's TIMEOUT fires before the event was set.
rtc_request_timeout(c) ==
  /\ c \in DOMAIN rtc_calls
  /\ rtc_calls[c].state = "waiting"
  /\ ~rtc_events[rtc_calls[c].waiter].isSet
  /\ rtc_calls' = [rtc_calls EXCEPT ![c] =
       rtc_request_end(@, response("Error", NoData, <<"Timeout">>, "", rtc_calls[c].session))]
  /\ rtc_queues' = [rtc_queues EXCEPT ![rtc_calls[c].owner] =
                      rtc_request_del(@, rtc_calls[c].session)]
  /\ UNCHANGED <<rtc_ready, rtc_pc, rtc_wire, rtc_tasks, rtc_last_exception,
                 rtc_closed, rtc_events, rtc_connCount>>

\* The event was set: event.wait() returns its data.
rtc_request_wake(c) ==
  /\ c \in DOMAIN rtc_calls
  /\ rtc_calls[c].state = "waiting"
  /\ rtc_events[rtc_calls[c].waiter].isSet
  /\ rtc_calls' = [rtc_calls EXCEPT ![c] =
       rtc_request_end(@, rtc_events[rtc_calls[c].waiter].data)]
  /\ rtc_queues' = [rtc_queues EXCEPT ![rtc_calls[c].owner] =
                      rtc_request_del(@, rtc_calls[c].session)]
  /\ UNCHANGED <<rtc_ready, rtc_pc, rtc_wire, rtc_tasks, rtc_last_exception,
                 rtc_closed, rtc_events, rtc_connCount>>

\* The transport: the socket goes to the closed state.
rtc_connection_lost ==
  /\ rtc_connCount > 0
  /\ ~rtc_closed
  /\ rtc_closed' = TRUE
  /\ UNCHANGED <<rtc_queues, rtc_ready, rtc_pc, rtc_wire, rtc_tasks,
                 rtc_last_exception, rtc_events, rtc_calls, rtc_connCount>>

\* RTConnection.__init__ on both endpoints.
InitRTC ==
  /\ rtc_queues = [e \in Endpoints |-> <<>>]
  /\ rtc_ready = [e \in Endpoints |-> FALSE]
  /\ rtc_pc = [e \in Endpoints |-> "idle"]
  /\ rtc_wire = [e \in Endpoints |-> <<>>]
  /\ rtc_tasks = [e \in Endpoints |-> {}]
  /\ rtc_last_exception = [e \in Endpoints |-> "None"]
  /\ rtc_closed = TRUE
  /\ rtc_events = <<>>
  /\ rtc_calls = <<>>
  /\ rtc_connCount = 0

\* ------------------------------------- RTConnection: tokens and routing
\* The characters of an endpoint name, and the longest name.
NameChars == {"a", "b", ","}
MaxNameLen == 2
\* The names an RTConnection can be constructed with: any non-empty string.
Names == UNION {[1..k -> NameChars] : k \in 1..MaxNameLen}
\* The tokens one endpoint mints are told apart by time() and token_hex().
NonceTimes == {1, 2}
\* No frame in flight; no frame routed.
NoNonce == [session |-> <<>>, minter |-> 0]
NotRouted == [receiver |-> 0, to |-> ""]

\* request(): "session = create_session_nonce(self.name)"; the token travels
\* in the request frame to the peer and comes back in the response frame.
nonce_request(m, n) ==
  /\ nonce_session = NoNonce
  /\ nonce_session' = [session |-> create_session_nonce(nonce_name[m], n), minter |-> m]
  /\ UNCHANGED <<nonce_name, nonce_routed>>

\* communicate(): "if detect_nonce_name(data["session"]) == self.name:
\* self.on_response(data) else: self.on_request(data)".
route(session, nm) ==
  IF detect_nonce_name(session) = nm THEN "on_response" ELSE "on_request"

\* Endpoint r receives the frame that carries the token.
nonce_recv(r) ==
  /\ nonce_session # NoNonce
  /\ nonce_routed = NotRouted
  /\ nonce_routed' = [receiver |-> r, to |-> route(nonce_session.session, nonce_name[r])]
  /\ UNCHANGED <<nonce_name, nonce_session>>

\* The two endpoints of the other specifications are named "a" and "b".
InitNonce ==
  /\ nonce_name = [e \in Endpoints |-> rtc_name(e)]
  /\ nonce_session = NoNonce
  /\ nonce_routed = NotRouted

Init == InitWS /\ InitRTC /\ InitStart /\ InitNonce

\* Two endpoints constructed with any two different names.
InitNames ==
  /\ InitWS /\ InitRTC /\ InitStart
  /\ nonce_name \in {f \in [Endpoints -> Names] : f[1] # f[2]}
  /\ nonce_session = NoNonce
  /\ nonce_routed = NotRouted

NextNonce ==
  \/ \E m \in Endpoints : \E n \in NonceTimes :
       nonce_request(m, n) /\ UNCHANGED <<wsVars, rtcVars, startVars>>
  \/ \E r \in Endpoints : nonce_recv(r) /\ UNCHANGED <<wsVars, rtcVars, startVars>>

SpecNonce == InitNames /\ [][NextNonce]_vars

NextRTC ==
  \/ rtc_communicate /\ UNCHANGED nonRtcVars
  \/ \E e \in Endpoints : rtc_send(e) /\ UNCHANGED nonRtcVars
  \/ \E e \in Endpoints : rtc_recv(e) /\ UNCHANGED nonRtcVars
  \/ \E e \in Endpoints : \E task \in rtc_tasks[e] :
       rtc_wrap_error_handling(e, task) /\ UNCHANGED nonRtcVars
  \/ \E e \in Endpoints : \E r \in Requests :
       rtc_request(e, r[1], r[2]) /\ UNCHANGED nonRtcVars
  \/ \E c \in DOMAIN rtc_calls : rtc_request_timeout(c) /\ UNCHANGED nonRtcVars
  \/ \E c \in DOMAIN rtc_calls : rtc_request_wake(c) /\ UNCHANGED nonRtcVars
  \/ rtc_connection_lost /\ UNCHANGED nonRtcVars

Next ==
  \/ communicate /\ UNCHANGED nonWsVars
  \/ \E e \in Endpoints : \E exception \in BOOLEAN :
       communicate_teardown(e, exception) /\ UNCHANGED nonWsVars
  \/ \E e \in Endpoints : receiver_handler(e) /\ UNCHANGED nonWsVars
  \/ \E e \in Endpoints : sender_handler(e) /\ UNCHANGED nonWsVars
  \/ \E e \in Endpoints : \E task \in processing[e] :
       process_request(e, task) /\ UNCHANGED nonWsVars
  \/ \E e \in Endpoints : \E r \in Requests :
       request(e, r[1], r[2]) /\ UNCHANGED nonWsVars
  \/ \E c \in DOMAIN calls : request_timeout(c) /\ UNCHANGED nonWsVars
  \/ \E c \in DOMAIN calls : request_wake(c) /\ UNCHANGED nonWsVars
  \/ \E e \in Endpoints : close(e) /\ UNCHANGED nonWsVars
  \/ connection_lost /\ UNCHANGED nonWsVars

\* The duplex endpoints.
Spec == Init /\ [][Next]_vars

\* The polled endpoints.
SpecRTC == Init /\ [][NextRTC]_vars

\* The polled endpoints on one socket that stays up, with callers that never
\* give up: one communicate on each side, no transport failure, no timeout, and
\* every request is for the handler "succ", which returns.
NextRTCUp ==
  \/ rtc_connCount = 0 /\ rtc_communicate /\ UNCHANGED nonRtcVars
  \/ \E e \in Endpoints : rtc_send(e) /\ UNCHANGED nonRtcVars
  \/ \E e \in Endpoints : rtc_recv(e) /\ UNCHANGED nonRtcVars
  \/ \E e \in Endpoints : \E task \in rtc_tasks[e] :
       rtc_wrap_error_handling(e, task) /\ UNCHANGED nonRtcVars
  \/ \E e \in Endpoints : \E x \in {1, 2} :
       rtc_request(e, "succ", x) /\ UNCHANGED nonRtcVars
  \/ \E c \in DOMAIN rtc_calls : rtc_request_wake(c) /\ UNCHANGED nonRtcVars

\* The event loop runs every coroutine that can run: the loop of communicate
\* (its sleeps end, a frame written is received), the handler tasks and the
\* callers whose event is set.
FairRTCUp ==
  /\ \A e \in Endpoints : WF_vars(rtc_send(e) /\ UNCHANGED nonRtcVars)
  /\ \A e \in Endpoints : WF_vars(rtc_recv(e) /\ UNCHANGED nonRtcVars)
  /\ \A e \in Endpoints :
       WF_vars(\E task \in rtc_tasks[e] : rtc_wrap_error_handling(e, task) /\ UNCHANGED nonRtcVars)
  /\ \A c \in 1..RtcMaxCalls : WF_vars(rtc_request_wake(c) /\ UNCHANGED nonRtcVars)

SpecRTCUp == Init /\ [][NextRTCUp]_vars /\ FairRTCUp

\* Endpoint 1 run by start(), endpoint 2 the peer it dials.
NextStart ==
  \/ \E reconnect \in BOOLEAN : \E okstatus \in OkStatuses :
       start(reconnect, okstatus) /\ UNCHANGED <<rtcVars, nonceVars>>
  \/ start_connect_OSError /\ UNCHANGED <<rtcVars, nonceVars>>
  \/ start_connect /\ UNCHANGED <<rtcVars, nonceVars>>
  \/ \E exception \in BOOLEAN : start_communicate_returns(exception) /\ UNCHANGED <<rtcVars, nonceVars>>
  \/ start_sleep /\ UNCHANGED <<rtcVars, nonceVars>>
  \/ \E e \in Endpoints : \E code \in CloseCodes : start_close(e, code) /\ UNCHANGED <<rtcVars, nonceVars>>
  \/ start_connection_lost /\ UNCHANGED <<rtcVars, nonceVars>>
  \/ \E exception \in BOOLEAN : start_peer_teardown(exception) /\ UNCHANGED <<rtcVars, nonceVars>>

SpecStart == Init /\ [][NextStart]_vars

\* What the callers of the liveness check ask for: a handler that returns and
\* an event nobody registered.
CallersRequests == {<<"succ", 1>>, <<"missing", 1>>}

\* The duplex endpoints with every behaviour of the transport and of the peer,
\* and the callers on endpoint 1.
NextWSCallers ==
  \/ communicate /\ UNCHANGED nonWsVars
  \/ \E e \in Endpoints : \E exception \in BOOLEAN :
       communicate_teardown(e, exception) /\ UNCHANGED nonWsVars
  \/ \E e \in Endpoints : receiver_handler(e) /\ UNCHANGED nonWsVars
  \/ \E e \in Endpoints : sender_handler(e) /\ UNCHANGED nonWsVars
  \/ \E e \in Endpoints : \E task \in processing[e] :
       process_request(e, task) /\ UNCHANGED nonWsVars
  \/ \E r \in CallersRequests : request(1, r[1], r[2]) /\ UNCHANGED nonWsVars
  \/ \E c \in DOMAIN calls : request_timeout(c) /\ UNCHANGED nonWsVars
  \/ \E c \in DOMAIN calls : request_wake(c) /\ UNCHANGED nonWsVars
  \/ \E e \in Endpoints : close(e) /\ UNCHANGED nonWsVars
  \/ connection_lost /\ UNCHANGED nonWsVars

\* The polled endpoints with every behaviour of the transport and of the peer,
\* and callers on both endpoints.
NextRTCCallers ==
  \/ rtc_communicate /\ UNCHANGED nonRtcVars
  \/ \E e \in Endpoints : rtc_send(e) /\ UNCHANGED nonRtcVars
  \/ \E e \in Endpoints : rtc_recv(e) /\ UNCHANGED nonRtcVars
  \/ \E e \in Endpoints : \E task \in rtc_tasks[e] :
       rtc_wrap_error_handling(e, task) /\ UNCHANGED nonRtcVars
  \/ \E e \in Endpoints : \E r \in CallersRequests :
       rtc_request(e, r[1], r[2]) /\ UNCHANGED nonRtcVars
  \/ \E c \in DOMAIN rtc_calls : rtc_request_timeout(c) /\ UNCHANGED nonRtcVars
  \/ \E c \in DOMAIN rtc_calls : rtc_request_wake(c) /\ UNCHANGED nonRtcVars
  \/ rtc_connection_lost /\ UNCHANGED nonRtcVars

\* Both kinds of endpoint with their callers.  The duplex and the polled
\* endpoints are separate objects that share no state, so a behaviour runs the
\* one or the other; whichever moves first, the other stays as constructed.
NextCallers ==
  \/ InitRTC /\ NextWSCallers
  \/ InitWS /\ NextRTCCallers

\* The timer of wait_for fires, and a caller whose event is set is resumed by
\* the event loop: a blocked call takes one of its two ways out.
FairCallers ==
  /\ \A c \in 1..MaxCalls :
       WF_vars((request_timeout(c) \/ request_wake(c)) /\ UNCHANGED nonWsVars)
  /\ \A c \in 1..RtcMaxCalls :
       WF_vars((rtc_request_timeout(c) \/ rtc_request_wake(c)) /\ UNCHANGED nonRtcVars)

SpecCallers == Init /\ [][NextCallers]_vars /\ FairCallers

\* ------------------------------------------------------------------ claims
Waiters(q) == DOMAIN q.waiting
Resolved(call) == call.state = "returned" \/ call.error = "Error"
\* The packets of a history written for / put on the queue of connection c.
RECURSIVE PacketsOf(_, _)
PacketsOf(log, c) ==
  IF log = <<>> THEN <<>>
  ELSE IF Head(log).conn = c THEN <<Head(log).packet>> \o PacketsOf(Tail(log), c)
  ELSE PacketsOf(Tail(log), c)
IsPrefix(a, b) == Len(a) <= Len(b) /\ SubSeq(b, 1, Len(a)) = a
\* How many packets of a history have the given type and session.
Frames(log, type, session) ==
  Cardinality({k \in DOMAIN log : log[k].packet.type = type /\ log[k].packet.session = session})

\* C1: every request call that returned a value or raised a remote error was
\* resolved by a response packet whose session is the token that call minted.
C1_Correlation ==
  \A c \in DOMAIN calls :
    Resolved(calls[c]) =>
      /\ calls[c].got.type = "response"
      /\ calls[c].got.session = calls[c].session
      /\ calls[c].got.session.name = name(calls[c].owner)

\* Two calls of one endpoint, both in flight together, both resolved.
C1_Witness ==
  \E c, d \in DOMAIN calls :
    /\ c # d
    /\ calls[c].owner = calls[d].owner
    /\ Resolved(calls[c]) /\ Resolved(calls[d])
    /\ calls[c].got # calls[d].got

\* The DataEvent a call waits on.
WaiterOf(c) == dataEvents[calls[c].waiter]
Pending(c) == calls[c].state = "waiting"
Drained(c) == Pending(c) /\ WaiterOf(c).isSet /\ WaiterOf(c).data = None

\* A step in which endpoint e tears its connection down and runs clean(): the
\* end of communicate() after a loop ended, or close().
C2_Teardown(e) == (\E x \in BOOLEAN : communicate_teardown(e, x)) \/ close(e)

\* C2: when the connection of e is torn down, every pending request call of e
\* is woken by the drain (its DataEvent is set with None) and the wait set is
\* empty afterwards; a drained call is not signalled again and ends with
\* Disconnected, never with Timeout.
C2_DrainOnTeardown ==
  [][ /\ \A e \in Endpoints :
           C2_Teardown(e) =>
             /\ Waiters(queues'[e]) = {}
             /\ \A c \in DOMAIN calls :
                  calls[c].owner = e /\ Pending(c) =>
                    /\ dataEvents'[calls[c].waiter].isSet
                    /\ dataEvents'[calls[c].waiter].data = None
      /\ \A c \in DOMAIN calls :
           Drained(c) =>
             /\ dataEvents'[calls[c].waiter] = dataEvents[calls[c].waiter]
             /\ calls'[c].state # "waiting" => calls'[c].error = "Disconnected"
    ]_vars

\* A call that was pending when its endpoint was torn down has failed with
\* Disconnected, and the endpoint has no wait set left.
C2_Witness ==
  \E c \in DOMAIN calls :
    /\ calls[c].error = "Disconnected"
    /\ queues[calls[c].owner] = NoQueues

\* C3: a request call made in any supervisor state returns, or raises
\* RequestError for Timeout, Disconnected or a remote Error: no other exception.
C3_OnlyRequestError ==
  \A c \in DOMAIN calls :
    calls[c].state = "raised" => calls[c].error \in {"Timeout", "Disconnected", "Error"}

\* C5: a token is in the wait set only while its request call is blocked on it:
\* once the call has returned, or raised for a remote error or a disconnect, its
\* token is gone.  (A token left by a timed-out call is not counted here.)
C5_TokenIffBlocked ==
  \A e \in Endpoints :
    /\ \A t \in Waiters(queues[e]) :
         \A c \in DOMAIN calls :
           calls[c].session = t => Pending(c) \/ calls[c].error = "Timeout"
    /\ \A c \in DOMAIN calls :
         calls[c].owner = e /\ Pending(c) /\ ~WaiterOf(c).isSet =>
           calls[c].session \in Waiters(queues[e])

\* C6: a DataEvent that has been set is never set again and its data is never
\* overwritten.
C6_SetOnce ==
  [][ \A i \in DOMAIN dataEvents :
        dataEvents[i].isSet => dataEvents'[i] = dataEvents[i] ]_vars

\* C7: whenever a request packet with session t is in the send queue, or has
\* been written to the socket from the Queues object still in place, t is in
\* the wait set; and a call that is blocked (not yet signalled) has its token
\* in the wait set of its endpoint, bound to its own DataEvent.
C7_ArmedBeforeVisible ==
  /\ \A e \in Endpoints :
       /\ \A k \in DOMAIN queues[e].sending :
            queues[e].sending[k].type = "request" =>
              queues[e].sending[k].session \in Waiters(queues[e])
       /\ \A k \in DOMAIN sent[e] :
            sent[e][k].packet.type = "request" /\ sent[e][k].conn = queues[e].conn =>
              sent[e][k].packet.session \in Waiters(queues[e])
  /\ \A c \in DOMAIN calls :
       Pending(c) /\ ~WaiterOf(c).isSet =>
         /\ calls[c].session \in Waiters(queues[calls[c].owner])
         /\ queues[calls[c].owner].waiting[calls[c].session] = calls[c].waiter

\* A request has been written to the socket and its caller is still blocked.
C7_Witness ==
  \E c \in DOMAIN calls :
    /\ Pending(c) /\ ~WaiterOf(c).isSet
    /\ Frames(sent[calls[c].owner], "request", calls[c].session) = 1
    /\ \E d \in DOMAIN calls : d # c /\ calls[d].owner = calls[c].owner /\ Pending(d)
         /\ \E k \in DOMAIN queues[calls[d].owner].sending :
              queues[calls[d].owner].sending[k].session = calls[d].session

\* The Error response _process_request builds for a request.
IsErrorResponseTo(packet, req) ==
  /\ packet.type = "response"
  /\ packet.status = "Error"
  /\ packet.session = req.session
  /\ packet.event = req.event

\* C8: when the task of a request whose handler raises ends (on an endpoint
\* that has its queues), exactly one packet is put on the send queue, an Error
\* response with the request's session and event; the step leaves the receiver
\* and the sender loop running, the other tasks in place, and no request ever
\* gets a second response.
C8_HandlerErrorIsolated ==
  /\ [][ \A e \in Endpoints : \A task \in processing[e] :
           /\ task \notin processing'[e]
           /\ queues[e] # NoQueues
           /\ HandlerRaises(task.request.event)
           => /\ Len(queues'[e].sending) = Len(queues[e].sending) + 1
              /\ SubSeq(queues'[e].sending, 1, Len(queues[e].sending)) = queues[e].sending
              /\ IsErrorResponseTo(queues'[e].sending[Len(queues'[e].sending)], task.request)
              /\ receiver_task' = receiver_task
              /\ sender_task' = sender_task
              /\ communicating' = communicating
              /\ processing'[e] = processing[e] \ {task}
              /\ wire' = wire
       ]_vars
  /\ [](\A e \in Endpoints : \A k, j \in DOMAIN puts[e] :
          /\ puts[e][k].packet.type = "response"
          /\ puts[e][j].packet.type = "response"
          /\ puts[e][k].packet.session = puts[e][j].packet.session
          => k = j)

\* A call to the raising handler failed with the remote error, and a call made
\* after it by the same endpoint on the same connection returned its value.
C8_Witness ==
  \E c, d \in DOMAIN calls :
    /\ c < d
    /\ calls[c].owner = calls[d].owner
    /\ calls[c].event = "boom" /\ calls[c].error = "Error"
    /\ calls[c].got.data.exc = "HandlerError"
    /\ calls[d].state = "returned"
    /\ \E k, j \in DOMAIN sent[calls[c].owner] :
         /\ k < j
         /\ sent[calls[c].owner][k].packet.session = calls[c].session
         /\ sent[calls[c].owner][j].packet.session = calls[d].session
         /\ sent[calls[c].owner][k].conn = sent[calls[c].owner][j].conn

\* C9: on every connection the packets written to the socket are, in order and
\* without repetition, the first packets put on that connection's send queue.
C9_SendFifo ==
  \A e \in Endpoints : \A c \in 1..MaxConn :
    IsPrefix(PacketsOf(sent[e], c), PacketsOf(puts[e], c))

\* An endpoint has written a request of its own and a response to the peer's
\* request on one connection.
C9_Witness ==
  \E e \in Endpoints : \E k, j \in DOMAIN sent[e] :
    /\ sent[e][k].conn = sent[e][j].conn
    /\ sent[e][k].packet.type = "request"
    /\ sent[e][j].packet.type = "response"
    /\ Len(sent[e]) >= 2

\* C10: a call that returned got exactly what the peer's handler returns for
\* its argument, and exactly one request frame and one response frame with its
\* session were written to the socket; no call ever has more than one of each.
C10_RoundTrip ==
  \A c \in DOMAIN calls :
    LET o == calls[c].owner IN
      /\ calls[c].state = "returned" =>
           /\ calls[c].event \in events /\ ~HandlerRaises(calls[c].event)
           /\ calls[c].got.data = [val |-> HandlerValue(calls[c].event, calls[c].arg), exc |-> ""]
           /\ Frames(sent[o], "request", calls[c].session) = 1
           /\ Frames(sent[Peer(o)], "response", calls[c].session) = 1
      /\ calls[c].session # NoSession =>
           /\ Frames(sent[o], "request", calls[c].session) <= 1
           /\ Frames(sent[Peer(o)], "response", calls[c].session) <= 1
           /\ Frames(sent[o], "response", calls[c].session) = 0
           /\ Frames(sent[Peer(o)], "request", calls[c].session) = 0

\* Two calls to "succ" with different payloads each returned their own result.
C10_Witness ==
  \E c, d \in DOMAIN calls :
    /\ calls[c].owner = calls[d].owner
    /\ calls[c].state = "returned" /\ calls[c].arg = 1 /\ calls[c].got.data.val = 2
    /\ calls[d].state = "returned" /\ calls[d].arg = 2 /\ calls[d].got.data.val = 3

\* Endpoint e is about to receive the response to one of its calls that has
\* already failed with Timeout (and deleted its session from self.queues).
C4_LateResponse(e) ==
  /\ rtc_pc[e] = "recv"
  /\ ~rtc_closed
  /\ rtc_wire[e] # <<>>
  /\ \E c \in DOMAIN rtc_calls :
       /\ rtc_calls[c].owner = e
       /\ rtc_calls[c].session = Head(rtc_wire[e]).session
       /\ rtc_calls[c].state = "raised"
       /\ rtc_calls[c].got.message = <<"Timeout">>

\* C4: receiving a response whose request has already timed out changes
\* nothing: the wait set, the events of the other calls and the calls stay as
\* they are, no exception reaches communicate and the socket stays open.
C4_LateResponseDropped ==
  [][ \A e \in Endpoints :
        C4_LateResponse(e) /\ rtc_pc'[e] # "recv" =>
          /\ rtc_pc'[e] = "send"
          /\ ~rtc_closed'
          /\ rtc_last_exception' = rtc_last_exception
          /\ rtc_queues' = rtc_queues
          /\ rtc_events' = rtc_events
          /\ rtc_calls' = rtc_calls ]_vars

\* Call c of the polled endpoint is blocked in wait_for and its request entry
\* is in the wait set of its endpoint, whose communicate loop is running.
C11_Outstanding(c) ==
  /\ c \in DOMAIN rtc_calls
  /\ rtc_calls[c].state = "waiting"
  /\ rtc_calls[c].session \in DOMAIN rtc_queues[rtc_calls[c].owner]
  /\ rtc_pc[rtc_calls[c].owner] \in {"send", "recv"}

\* The event of call c has been set.
C11_Answered(c) == c \in DOMAIN rtc_calls /\ rtc_events[rtc_calls[c].waiter].isSet

\* C11: on a socket that stays up, with handlers that return, every request of
\* either side is eventually answered (its event is set with the response), so
\* that it need not end with Timeout: also when both sides have a request
\* outstanding at the same time.
C11_EveryRequestAnswered ==
  \A c \in 1..RtcMaxCalls :
    [](C11_Outstanding(c) => <>C11_Answered(c))

\* C12: the response of a handler task is only ever put on the send queue of
\* the connection its request came over: a task that outlives its connection
\* puts nothing on the queue of a later connection.
C12_StaleResponseDiscarded ==
  \A e \in Endpoints : \A k \in DOMAIN puts[e] :
    puts[e][k].packet.type = "response" =>
      \E j \in DOMAIN sent[Peer(e)] :
        /\ sent[Peer(e)][j].packet.type = "request"
        /\ sent[Peer(e)][j].packet.session = puts[e][k].packet.session
        /\ sent[Peer(e)][j].conn = puts[e][k].conn

\* The connection run of endpoint 1 ends in this step (communicate returns to
\* start) with no error of either loop.
C13_RunEndsWithoutError ==
  /\ start_pc = "communicate"
  /\ start_pc' # "communicate"
  /\ communicate_teardown(1, FALSE)

\* C13: when a connection run ends with the socket's close code in okstatus
\* and no loop of that run ended with an error, start returns without a
\* reconnect, whatever reconnect is and however earlier attempts ended.
C13_OkCloseExits ==
  [][ C13_RunEndsWithoutError /\ has_close_code /\ close_code \in start_okstatus
        => start_pc' = "returned" ]_vars

\* An attempt of start fails in this step: the dial raises OSError, or the
\* connection run ends without an ok close or with a recorded error.
C14_AttemptFails ==
  \/ /\ start_pc = "connect"
     /\ start_pc' # "connect"
     /\ connCount' = connCount
  \/ /\ start_pc = "communicate"
     /\ start_pc' # "communicate"
     /\ ~start_disconnected_successfully(has_close_code, close_code, start_okstatus,
                                         successfully_disconnected'[1])

\* C14: after a failed attempt start sleeps the backoff and then dials again
\* if reconnect is true, and ends by raising an error to its caller if
\* reconnect is false.
C14_RetryOrError ==
  [][ /\ C14_AttemptFails =>
           IF start_reconnect THEN start_pc' = "sleep" ELSE start_pc' = "raised"
      /\ start_pc = "sleep" /\ start_pc' # "sleep" =>
           start_pc' = "connect" /\ connCount' = connCount
    ]_vars

\* The communicate run of e has ended because the socket disconnected.
C15_Disconnected(e) == rtc_pc[e] = "ended" /\ rtc_last_exception[e] = "ConnectionClosed"

\* C15: after a communicate run ended by a disconnect the endpoint is not
\* connected (ready is not set), and communicate on a fresh socket enters the
\* loop and leaves the socket open.
C15_ReconnectAfterDisconnect ==
  /\ [](\A e \in Endpoints : C15_Disconnected(e) => ~rtc_ready[e])
  /\ [][ (\A e \in Endpoints : C15_Disconnected(e)) /\ rtc_connCount' = rtc_connCount + 1
           => /\ ~rtc_closed'
              /\ \A e \in Endpoints : rtc_pc'[e] \in {"send", "recv"} ]_vars

\* C16: the response to a request whose event has no registered handler has
\* status Error, the request's session and event, and data that names the
\* failure EventNotFound (data.exc is what the data of an Error response
\* reports: the exception format_exc() printed).
C16_EventNotFound ==
  \A e \in Endpoints : \A k \in DOMAIN puts[e] :
    LET packet == puts[e][k].packet IN
      packet.type = "response" /\ packet.event \notin events =>
        /\ packet.status = "Error"
        /\ packet.data.exc = "EventNotFound"
        /\ \E j \in DOMAIN sent[Peer(e)] :
             /\ sent[Peer(e)][j].packet.type = "request"
             /\ sent[Peer(e)][j].packet.session = packet.session
             /\ sent[Peer(e)][j].packet.event = packet.event

\* Call c of the duplex / of the polled endpoint is blocked in wait_for.
C17_Blocked(c) == c \in DOMAIN calls /\ calls[c].state = "waiting"
C17_Ended(c) == c \in DOMAIN calls /\ calls[c].state \in {"returned", "raised"}
C17_RtcBlocked(c) == c \in DOMAIN rtc_calls /\ rtc_calls[c].state = "waiting"
C17_RtcEnded(c) == c \in DOMAIN rtc_calls /\ rtc_calls[c].state \in {"returned", "raised"}

\* C17: every request call, of RTWebSocket and of RTConnection, eventually
\* returns or raises, whatever the peer and the transport do.
C17_CallersNeverHang ==
  /\ \A c \in 1..MaxCalls : [](C17_Blocked(c) => <>C17_Ended(c))
  /\ \A c \in 1..RtcMaxCalls : [](C17_RtcBlocked(c) => <>C17_RtcEnded(c))

\* Two calls of the duplex endpoint have ended without an answer: one by the
\* timer while it was blocked, one by the drain of a teardown.
C17_Witness ==
  \E c, d \in DOMAIN calls :
    /\ calls[c].state = "raised" /\ calls[c].error = "Timeout"
    /\ calls[d].state = "raised" /\ calls[d].error = "Disconnected"

\* C18: whenever started is set, both loops are active and the Queues object
\* (send queue and wait set) of the current socket exists.
C18_StartedOnlyRunning ==
  \A e \in Endpoints :
    started[e] =>
      /\ receiver_task[e] = "running"
      /\ sender_task[e] = "running"
      /\ queues[e] # NoQueues
      /\ queues[e].conn = ws[e]

\* The frames written to the open socket and not yet received.
C19_InFlight == Len(rtc_wire[1]) + Len(rtc_wire[2])
\* The endpoints whose loop is at its send turn.
C19_Senders == {e \in Endpoints : rtc_pc[e] = "send"}

\* C19: while the socket is open the two loops alternate: at any time either
\* exactly one endpoint is at its send turn and no frame is in flight, or both
\* are in recv and exactly one frame is in flight; a send turn writes exactly
\* one frame (a packet of the wait set or "Nothing") and goes to recv, a
\* receive turn takes exactly one frame.
C19_HalfDuplex ==
  /\ [](~rtc_closed =>
          /\ \A e \in Endpoints : rtc_pc[e] \in {"send", "recv"}
          /\ Cardinality(C19_Senders) + C19_InFlight = 1)
  /\ [][ \A e \in Endpoints :
           /\ rtc_pc[e] = "send" /\ rtc_pc'[e] # "send" /\ ~rtc_closed =>
                /\ rtc_pc'[e] = "recv"
                /\ Len(rtc_wire'[Peer(e)]) = Len(rtc_wire[Peer(e)]) + 1
                /\ rtc_wire'[e] = rtc_wire[e]
                /\ LET frame == rtc_wire'[Peer(e)][Len(rtc_wire'[Peer(e)])] IN
                     \/ frame = Nothing
                     \/ \E k \in DOMAIN rtc_queues[e] :
                          rtc_events[rtc_queues[e][k]].subject.packet = frame
           /\ rtc_pc[e] = "recv" /\ rtc_pc'[e] = "send" =>
                /\ rtc_wire'[e] = Tail(rtc_wire[e])
                /\ rtc_wire'[Peer(e)] = rtc_wire[Peer(e)]
     ]_vars

\* The socket is open, a response is in flight to endpoint 1 and endpoint 2,
\* which sent it, is back in recv.
C19_Witness ==
  /\ ~rtc_closed
  /\ rtc_pc = [e \in Endpoints |-> "recv"]
  /\ rtc_wire[1] # <<>>
  /\ Head(rtc_wire[1]) # Nothing
  /\ Head(rtc_wire[1]).status = "Ok"
  /\ detect_nonce_name(Head(rtc_wire[1]).session) = rtc_name(1)

\* Endpoint e takes its send turn on the open socket in this step.
C20_SendTurn(e) == rtc_pc[e] = "send" /\ rtc_pc'[e] = "recv" /\ ~rtc_closed
\* The frame written in this step by e.
C20_Frame(e) == rtc_wire'[Peer(e)][Len(rtc_wire'[Peer(e)])]
\* The entries of the wait set of e with the minimum created_at.
C20_Oldest(e) ==
  {i \in Range(rtc_queues[e]) :
     \A j \in Range(rtc_queues[e]) : rtc_events[i].created_at <= rtc_events[j].created_at}

\* A send turn looks only at the entry with the minimum created_at: it writes
\* that entry's packet if it was not sent before (else "Nothing") and marks it
\* sent; a sent mark is never taken back, so no entry is written twice; a
\* response entry is deleted by the send turn that wrote it.
C20_SendTurns ==
  /\ \A e \in Endpoints :
       C20_SendTurn(e) =>
         IF rtc_queues[e] = <<>>
           THEN C20_Frame(e) = Nothing /\ rtc_queues'[e] = rtc_queues[e]
                /\ rtc_events' = rtc_events
           ELSE \E i \in C20_Oldest(e) :
                  /\ C20_Frame(e) = IF rtc_events[i].sent THEN Nothing
                                    ELSE rtc_events[i].subject.packet
                  /\ rtc_events' = [rtc_events EXCEPT ![i].sent = TRUE]
                  /\ rtc_queues'[e] =
                       IF rtc_events[i].subject.kind = "response"
                         THEN DictDel(rtc_queues[e], rtc_events[i].subject.packet.session)
                         ELSE rtc_queues[e]
  /\ \A i \in DOMAIN rtc_events : rtc_events[i].sent => rtc_events'[i].sent

\* The request entry of call c leaves the wait set in this step.
C20_Unkeyed(c) ==
  /\ rtc_calls[c].session \in DOMAIN rtc_queues[rtc_calls[c].owner]
  /\ rtc_calls[c].session \notin DOMAIN rtc_queues'[rtc_calls[c].owner]
\* Call c ends in this step.
C20_CallEnds(c) == rtc_calls[c].state = "waiting" /\ rtc_calls'[c].state # "waiting"

C21_Blocking(c) ==
  /\ rtc_calls[c].state = "waiting"
  /\ rtc_pc[rtc_calls[c].owner] \in {"send", "recv"}
  /\ rtc_calls[c].waiter \in C20_Oldest(rtc_calls[c].owner)
  /\ rtc_events[rtc_calls[c].waiter].sent

C22_RoutedByMinter ==
  nonce_routed # NotRouted =>
    /\ detect_nonce_name(nonce_session.session) = nonce_name[nonce_session.minter]
    /\ nonce_routed.to = "on_response" <=> nonce_session.minter = nonce_routed.receiver
    /\ nonce_session.minter # nonce_routed.receiver => nonce_routed.to = "on_request"

====
